---- MODULE Spec2Model ----
(***************************************************************************)
(* Model of src/app.py, checked against the properties its specification   *)
(* states: the outline renumberer (add_numbering_to_outline, lines         *)
(* 125-225, specifications Spec and SpecCalls), the heading extractor      *)
(* (extract_headings_regex, lines 67-115, SpecExtract), the render adapter *)
(* (convert_markdown_to_html, lines 227-241, SpecRender) and process_pdf   *)
(* (lines 250-297, SpecPdf).                                               *)
(*                                                                         *)
(* A Python string is a sequence of one-character strings.  The outline is *)
(* one string; the function splits it on "\n", walks the lines once and    *)
(* joins the rewritten lines with "\n".  One action models one branch of   *)
(* the loop body, Return models the final join.                            *)
(***************************************************************************)
EXTENDS Integers, Sequences, FiniteSets, TLC

(***************************************************************************)
(* Bounds of the model.                                                    *)
(***************************************************************************)
MaxLines == 3
MaxDepth == 3

(***************************************************************************)
(* Characters and strings.                                                 *)
(***************************************************************************)
NL == "\n"

Uppers == <<"A","B","C","D","E","F","G","H","I","J","K","L","M",
            "N","O","P","Q","R","S","T","U","V","W","X","Y","Z">>

Lowers == <<"a","b","c","d","e","f","g","h","i","j","k","l","m",
            "n","o","p","q","r","s","t","u","v","w","x","y","z">>

Digits == <<"0","1","2","3","4","5","6","7","8","9">>

\* Python's ord('A').
OrdA == 65

\* chr(n) for the code points the letter counter takes: 'A'..'Z', and the
\* first character after 'Z' for every later code point (none of them is a
\* letter until 'a'; the model never gets past 'Z').
Chr(n) ==
    IF n - OrdA + 1 <= Len(Uppers) THEN Uppers[n - OrdA + 1] ELSE "["

IsDigit(c) == \E k \in 1..Len(Digits) : Digits[k] = c

\* Python's str.isspace / regex \s on the characters of the model.
IsSpace(c) == c \in {" ", "\t", NL}

DigitValue(c) == (CHOOSE k \in 1..Len(Digits) : Digits[k] = c) - 1

\* str.lower() on one character.
LowerChar(c) ==
    IF \E k \in 1..Len(Uppers) : Uppers[k] = c
    THEN Lowers[CHOOSE k \in 1..Len(Uppers) : Uppers[k] = c]
    ELSE c

\* str.lower().
Lower(s) == [k \in 1..Len(s) |-> LowerChar(s[k])]

\* The tail of s from position k on (s[k:] with 1-based k).
From(s, k) == SubSeq(s, k, Len(s))

\* needle in hay.
Contains(hay, needle) ==
    \E k \in 1..(Len(hay) - Len(needle) + 1) :
        SubSeq(hay, k, k + Len(needle) - 1) = needle

\* s.count(c).
RECURSIVE Count(_, _)
Count(s, c) ==
    IF s = <<>> THEN 0
    ELSE (IF Head(s) = c THEN 1 ELSE 0) + Count(Tail(s), c)

\* c * n for a one-character string c.
Repeat(c, n) == [k \in 1..n |-> c]

\* s.lstrip('#').
RECURSIVE LStripHash(_)
LStripHash(s) ==
    IF s # <<>> /\ Head(s) = "#" THEN LStripHash(Tail(s)) ELSE s

RECURSIVE LStripSpace(_)
LStripSpace(s) ==
    IF s # <<>> /\ IsSpace(Head(s)) THEN LStripSpace(Tail(s)) ELSE s

RECURSIVE RStripSpace(_)
RStripSpace(s) ==
    IF s # <<>> /\ IsSpace(s[Len(s)])
    THEN RStripSpace(SubSeq(s, 1, Len(s) - 1))
    ELSE s

\* s.strip().
Strip(s) == RStripSpace(LStripSpace(s))

\* Length of the longest prefix of s made of digits (\d+ or \d*).
RECURSIVE DigitRun(_)
DigitRun(s) ==
    IF s # <<>> /\ IsDigit(Head(s)) THEN 1 + DigitRun(Tail(s)) ELSE 0

\* Length of the longest prefix of s made of whitespace (\s+ or \s*).
RECURSIVE SpaceRun(_)
SpaceRun(s) ==
    IF s # <<>> /\ IsSpace(Head(s)) THEN 1 + SpaceRun(Tail(s)) ELSE 0

\* int(s) for a string of digits.
RECURSIVE ToInt(_)
ToInt(s) ==
    IF s = <<>> THEN 0
    ELSE 10 * ToInt(SubSeq(s, 1, Len(s) - 1)) + DigitValue(s[Len(s)])

\* str(n) for n >= 0.
RECURSIVE ToStr(_)
ToStr(n) ==
    IF n < 10 THEN <<Digits[n + 1]>>
    ELSE ToStr(n \div 10) \o <<Digits[(n % 10) + 1]>>

\* outline.split("\n"): always at least one piece.
RECURSIVE SplitLines(_)
SplitLines(s) ==
    IF \E k \in 1..Len(s) : s[k] = NL
    THEN LET k == CHOOSE j \in 1..Len(s) :
                      s[j] = NL /\ \A h \in 1..(j - 1) : s[h] # NL
         IN  <<SubSeq(s, 1, k - 1)>> \o SplitLines(From(s, k + 1))
    ELSE <<s>>

\* sep.join(parts).
RECURSIVE Join(_, _)
Join(parts, sep) ==
    IF parts = <<>> THEN <<>>
    ELSE IF Len(parts) = 1 THEN parts[1]
    ELSE parts[1] \o sep \o Join(Tail(parts), sep)

(***************************************************************************)
(* The renumberer's helpers (add_numbering_to_outline).                    *)
(***************************************************************************)

\* A dict from heading level to counter: a function on the keys present.
EmptyDict == <<>>

\* d.get(k, 0).
Get(d, k) == IF k \in DOMAIN d THEN d[k] ELSE 0

\* d[k] = v.
Put(d, k, v) == [x \in (DOMAIN d) \cup {k} |-> IF x = k THEN v ELSE d[x]]

\* Mutant of ResetDeeper: the comparison is >= instead of >.
ResetFromLevel(d, level) == [x \in DOMAIN d |-> IF x >= level THEN 0 ELSE d[x]]

\* Mutant of ResetDeeper: the deeper counters are left as they are.
ResetNothing(d, level) == d

\* for lvl in list(d.keys()): if lvl > level: d[lvl] = 0
ResetDeeper(d, level) == [x \in DOMAIN d |-> IF x > level THEN 0 ELSE d[x]]

\* The value of current_appendix_letter before any appendix heading.
None == "None"

conclusion_keywords ==
    { <<"C","o","n","c","l","u","s","i","o","n">>,
      <<"C","o","n","c","l","u","d","i","n","g">>,
      <<"F","i","n","a","l"," ","R","e","m","a","r","k","s">>,
      <<"S","u","m","m","a","r","y">> }

\* any(kw.lower() in clean_text.lower() for kw in conclusion_keywords)
HasConclusionKeyword(clean_text) ==
    \E kw \in conclusion_keywords : Contains(Lower(clean_text), Lower(kw))

\* heading_level = line.count('#')
HeadingLevel(line) == Count(line, "#")

\* text = line.lstrip('#').strip()
HeadingText(line) == Strip(LStripHash(line))

\* re.match(r'^(\d+)\s+(.*)', text): the greedy \d+ must be followed by
\* whitespace; group 1 is the digits, group 2 what follows the whitespace.
LeadingNumber(text) ==
    LET d == DigitRun(text)
        w == SpaceRun(From(text, d + 1))
    IN  [matched |-> d >= 1 /\ w >= 1,
         group1  |-> SubSeq(text, 1, d),
         group2  |-> From(text, d + w + 1)]

\* Length of the longest prefix of s matching (\.\d+)*.
RECURSIVE DottedRun(_)
DottedRun(s) ==
    IF s # <<>> /\ Head(s) = "." /\ DigitRun(Tail(s)) >= 1
    THEN 1 + DigitRun(Tail(s)) + DottedRun(From(s, DigitRun(Tail(s)) + 2))
    ELSE 0

\* Length of the match of ^\d+(\.\d+)*\s+ at the start of text, 0 for none.
\* Every part is greedy and no shorter choice can be followed by whitespace.
NumberingLen(text) ==
    LET d == DigitRun(text)
        e == d + DottedRun(From(text, d + 1))
        w == SpaceRun(From(text, e + 1))
    IN  IF d >= 1 /\ w >= 1 THEN e + w ELSE 0

\* re.sub(r'^\d+(\.\d+)*\s+', '', text)
StripNumbering(text) == From(text, NumberingLen(text) + 1)

\* numbering_parts: str(counters.get(lvl, 0)) for lvl in range(from, to + 1).
RECURSIVE NumberingParts(_, _, _)
NumberingParts(counters, from, to) ==
    IF from > to THEN <<>>
    ELSE <<ToStr(Get(counters, from))>> \o NumberingParts(counters, from + 1, to)

\* f"{'#' * heading_level} {label} {text}"
HeadingLine(heading_level, label, text) ==
    Repeat("#", heading_level) \o <<" ">> \o label \o <<" ">> \o text

\* Mutant of NumericLevel1: a heading with a conclusion keyword gets the
\* fixed number 6 instead of the next value of the counter.
NumericLevel1FixedConclusion(counters, text) ==
    LET m   == LeadingNumber(text)
        clean_text == IF m.matched THEN m.group2 ELSE text
        num == IF HasConclusionKeyword(clean_text) THEN 6
               ELSE IF m.matched THEN ToInt(m.group1) ELSE Get(counters, 1) + 1
    IN  [counters |-> ResetDeeper(Put(counters, 1, num), 1),
         line     |-> HeadingLine(1, ToStr(num), clean_text),
         complete |-> HasConclusionKeyword(clean_text)]

\* A level-1 heading of the main body (lines 168-188): the counters after
\* it, the line appended, and whether it ends the main body.
NumericLevel1(counters, text) ==
    LET m   == LeadingNumber(text)
        num == IF m.matched THEN ToInt(m.group1) ELSE Get(counters, 1) + 1
        clean_text == IF m.matched THEN m.group2 ELSE text
    IN  [counters |-> ResetDeeper(Put(counters, 1, num), 1),
         line     |-> HeadingLine(1, ToStr(num), clean_text),
         complete |-> HasConclusionKeyword(clean_text)]

\* Mutant of AppendixLevel1: a heading that brings its own number keeps it,
\* as in the main body.
AppendixLevel1KeepsNumber(letter_counter, text) ==
    LET m == LeadingNumber(text)
    IN  [letter         |-> Chr(letter_counter),
         letter_counter |-> letter_counter + 1,
         counters       |-> EmptyDict,
         line           |-> IF m.matched
                            THEN HeadingLine(1, ToStr(ToInt(m.group1)), m.group2)
                            ELSE HeadingLine(1, <<Chr(letter_counter)>>, text)]

\* Mutant of AppendixLevel1: the letter counter is not advanced.
AppendixLevel1SameLetter(letter_counter, text) ==
    [letter         |-> Chr(letter_counter),
     letter_counter |-> letter_counter,
     counters       |-> EmptyDict,
     line           |-> HeadingLine(1, <<Chr(letter_counter)>>, text)]

\* A level-1 heading after the main body (lines 192-196).
AppendixLevel1(letter_counter, text) ==
    [letter         |-> Chr(letter_counter),
     letter_counter |-> letter_counter + 1,
     counters       |-> EmptyDict,
     line           |-> HeadingLine(1, <<Chr(letter_counter)>>, text)]

\* A subheading under a numeric level-1 heading (lines 201-211).
NumericSub(counters, heading_level, text) ==
    LET c == ResetDeeper(Put(counters, heading_level,
                             Get(counters, heading_level) + 1), heading_level)
    IN  [counters |-> c,
         line     |-> HeadingLine(heading_level,
                                  Join(NumberingParts(c, 1, heading_level), <<".">>),
                                  StripNumbering(text))]

\* Mutant of AppendixSub: the counters are joined from level 1, as in the
\* numeric branch, instead of from level 2.
AppendixSubFromLevel1(counters, letter, heading_level, text) ==
    LET c == ResetDeeper(Put(counters, heading_level,
                             Get(counters, heading_level) + 1), heading_level)
    IN  [counters |-> c,
         line     |-> HeadingLine(heading_level,
                                  Join(<<<<letter>>>> \o NumberingParts(c, 1, heading_level),
                                       <<".">>),
                                  text)]

\* A subheading under an appendix level-1 heading (lines 214-223).
AppendixSub(counters, letter, heading_level, text) ==
    LET c == ResetDeeper(Put(counters, heading_level,
                             Get(counters, heading_level) + 1), heading_level)
    IN  [counters |-> c,
         line     |-> HeadingLine(heading_level,
                                  Join(<<<<letter>>>> \o NumberingParts(c, 2, heading_level),
                                       <<".">>),
                                  text)]

(***************************************************************************)
(* The inputs: outlines of at most MaxLines lines, each line a heading of  *)
(* one to MaxDepth markers or a passthrough line, and the six-line outline *)
(* of the documented scenario.                                             *)
(***************************************************************************)
TxtPlain    == <<"I","n">>
TxtKeyword  == <<"S","U","M","M","A","R","Y">>
TxtNumbered == <<"9"," ","M","e">>
TxtDotted   == <<"3",".","1"," ","R","e">>
TxtHash     == <<"C","#">>
TxtSub      == <<"S","u"," ">>

Heading(depth, text) == Repeat("#", depth) \o <<" ">> \o text

PassthroughLines == { <<>>, <<"x"," ">> }

\* A line of text that begins with no marker and has a '#' further on.
InnerMarkerLines == { <<"x","#">> }

Level1Lines ==
    { Heading(1, t) : t \in {TxtPlain, TxtKeyword, TxtNumbered, TxtDotted, TxtHash} }

SubLines ==
    { Heading(d, t) : d \in 2..MaxDepth, t \in {TxtSub, TxtDotted} }

InputLines == PassthroughLines \cup InnerMarkerLines \cup Level1Lines \cup SubLines

RECURSIVE LineSeqs(_)
LineSeqs(n) ==
    IF n = 0 THEN { <<>> }
    ELSE LET shorter == LineSeqs(n - 1)
         IN  shorter \cup { Append(ls, l) : ls \in { x \in shorter : Len(x) = n - 1 },
                                            l \in InputLines }

TxtIntroduction == <<"I","n","t","r","o","d","u","c","t","i","o","n">>

TxtBackground == <<"B","a","c","k","g","r","o","u","n","d">>

TxtMethods == <<"M","e","t","h","o","d","s">>

TxtConclusion == <<"C","o","n","c","l","u","s","i","o","n">>

TxtAcknowledgments == <<"A","c","k","n","o","w","l","e","d","g","m","e","n","t","s">>

TxtFunding == <<"F","u","n","d","i","n","g">>

ScenarioLines ==
    << Heading(1, TxtIntroduction), Heading(2, TxtBackground),
       Heading(1, TxtMethods), Heading(1, TxtConclusion),
       Heading(1, TxtAcknowledgments), Heading(2, TxtFunding) >>

\* An outline with sub-sections under the conclusion and two appendices.
AppendixLines ==
    << Heading(1, TxtKeyword), Heading(2, TxtSub),
       Heading(1, TxtPlain), Heading(3, TxtSub), Heading(2, TxtSub),
       Heading(3, TxtSub), Heading(1, TxtNumbered), Heading(2, TxtDotted) >>

Outlines ==
    { Join(ls, <<NL>>) :
        ls \in (LineSeqs(MaxLines) \ { <<>> }) \cup {ScenarioLines, AppendixLines} }

(***************************************************************************)
(* The state of one call of add_numbering_to_outline.                      *)
(***************************************************************************)
VARIABLES
    outline,                  \* the argument
    lines,                    \* outline.split("\n")
    pos,                      \* index in lines of the line the loop is at
    numbered_outline,         \* the lines appended so far
    numeric_counters,
    appendix_counters,
    appendix_letter_counter,
    current_appendix_letter,
    main_body_complete,
    current_main_mode,        \* "numeric" or "appendix"
    result,                   \* the returned string, once pc = "done"
    pc                        \* "loop", "done", or "raised" (TypeError)

renumber_vars ==
    << outline, lines, pos, numbered_outline, numeric_counters,
       appendix_counters, appendix_letter_counter, current_appendix_letter,
       main_body_complete, current_main_mode, result, pc >>

(***************************************************************************)
(* What the process holds besides one call of the renumberer.              *)
(***************************************************************************)
VARIABLES
    returned                  \* the calls of the renumberer that have returned:
                              \* for each, its argument and its result

(***************************************************************************)
(* The state of one call of extract_headings_regex.                        *)
(***************************************************************************)
VARIABLES
    doc,                      \* the text of each page, doc.load_page(i).get_text()
    readable,                 \* whether fitz.open succeeds on pdf_bytes
    max_pages,                \* the argument
    page_num,                 \* the loop variable of line 87, counted from 0
    found_introduction,
    headings,                 \* the candidates appended so far
    origin,                   \* for each candidate: the rule that matched, the
                              \* page and the line where its match begins
    xpc                       \* "idle", "loop" or "done"

extract_vars ==
    << doc, readable, max_pages, page_num, found_introduction, headings,
       origin, xpc >>

(***************************************************************************)
(* The state of one call of convert_markdown_to_html.                      *)
(***************************************************************************)
VARIABLES
    markdown_text,            \* the argument
    md_lines,                 \* markdown_text.strip().split("\n")
    md_pos,                   \* index in md_lines of the line the loop is at
    html_output,              \* the lines appended so far
    html,                     \* the returned string, once rpc = "done"
    rpc                       \* "idle", "loop" or "done"

render_vars == << markdown_text, md_lines, md_pos, html_output, html, rpc >>

(***************************************************************************)
(* The state of one call of process_pdf.                                   *)
(***************************************************************************)
VARIABLES
    pdf_bytes,                \* the document: readable, its embedded outline
                              \* (doc.get_toc()) and the text of its pages
    pdf_headings,             \* the local variable headings of process_pdf
    calls,                    \* the functions process_pdf has called, in order
    shown,                    \* what process_pdf has displayed
    ppc                       \* "idle", "toc", "extract", "show" or "done"

pdf_vars == << pdf_bytes, pdf_headings, calls, shown, ppc >>

other_vars == << returned, extract_vars, render_vars, pdf_vars >>

vars == << renumber_vars, other_vars >>

\* extract_headings_regex is not running.
ExtractIdle ==
    /\ doc = <<>>
    /\ readable = TRUE
    /\ max_pages = 0
    /\ page_num = 0
    /\ found_introduction = FALSE
    /\ headings = <<>>
    /\ origin = <<>>
    /\ xpc = "idle"

\* convert_markdown_to_html is not running.
RenderIdle ==
    /\ markdown_text = <<>>
    /\ md_lines = <<>>
    /\ md_pos = 1
    /\ html_output = <<>>
    /\ html = <<>>
    /\ rpc = "idle"

\* process_pdf is not running.
PdfIdle ==
    /\ pdf_bytes = [readable |-> TRUE, toc |-> <<>>, pages |-> <<>>]
    /\ pdf_headings = <<>>
    /\ calls = <<>>
    /\ shown = [info |-> "", raw_markdown |-> <<>>, converted_html |-> <<>>]
    /\ ppc = "idle"

\* Nothing but the renumberer has run.
OthersIdle ==
    /\ returned = <<>>
    /\ ExtractIdle
    /\ RenderIdle
    /\ PdfIdle

\* Lines 137-155.
Init ==
    /\ outline \in Outlines
    /\ lines = SplitLines(outline)
    /\ pos = 1
    /\ numbered_outline = <<>>
    /\ numeric_counters = EmptyDict
    /\ appendix_counters = EmptyDict
    /\ appendix_letter_counter = OrdA
    /\ current_appendix_letter = None
    /\ main_body_complete = FALSE
    /\ current_main_mode = "numeric"
    /\ result = <<>>
    /\ pc = "loop"
    /\ OthersIdle

AtLine == pc = "loop" /\ pos <= Len(lines)

\* Mutant of PassThrough: the loop goes on without appending the line.
PassThroughSkipped ==
    /\ AtLine
    /\ HeadingLevel(lines[pos]) = 0
    /\ pos' = pos + 1
    /\ UNCHANGED other_vars
    /\ UNCHANGED << outline, lines, numbered_outline, numeric_counters,
                    appendix_counters, appendix_letter_counter,
                    current_appendix_letter, main_body_complete,
                    current_main_mode, result, pc >>

\* Lines 157-159: a line without '#' is appended as it is.
PassThrough ==
    /\ AtLine
    /\ HeadingLevel(lines[pos]) = 0
    /\ numbered_outline' = Append(numbered_outline, lines[pos])
    /\ pos' = pos + 1
    /\ UNCHANGED other_vars
    /\ UNCHANGED << outline, lines, numeric_counters, appendix_counters,
                    appendix_letter_counter, current_appendix_letter,
                    main_body_complete, current_main_mode, result, pc >>

\* Mutant of Level1Numeric: the conclusion heading switches to appendix
\* numbering at once, taking the first letter for its own subheadings.
Level1NumericEagerSwitch ==
    /\ AtLine
    /\ HeadingLevel(lines[pos]) = 1
    /\ ~main_body_complete
    /\ LET r == NumericLevel1(numeric_counters, HeadingText(lines[pos]))
       IN  /\ numeric_counters' = r.counters
           /\ numbered_outline' = Append(numbered_outline, r.line)
           /\ main_body_complete' = r.complete
           /\ current_main_mode' = IF r.complete THEN "appendix" ELSE "numeric"
           /\ current_appendix_letter' =
                  IF r.complete THEN Chr(appendix_letter_counter)
                  ELSE current_appendix_letter
    /\ pos' = pos + 1
    /\ UNCHANGED other_vars
    /\ UNCHANGED << outline, lines, appendix_counters, appendix_letter_counter,
                    result, pc >>

\* Mutant of Level1Numeric: the conclusion heading sets the appendix mode
\* at once, before any letter has been assigned.
Level1NumericSwitchNoLetter ==
    /\ AtLine
    /\ HeadingLevel(lines[pos]) = 1
    /\ ~main_body_complete
    /\ LET r == NumericLevel1(numeric_counters, HeadingText(lines[pos]))
       IN  /\ numeric_counters' = r.counters
           /\ numbered_outline' = Append(numbered_outline, r.line)
           /\ main_body_complete' = r.complete
           /\ current_main_mode' = IF r.complete THEN "appendix" ELSE "numeric"
    /\ pos' = pos + 1
    /\ UNCHANGED other_vars
    /\ UNCHANGED << outline, lines, appendix_counters, appendix_letter_counter,
                    current_appendix_letter, result, pc >>

\* Lines 164-188: a level-1 heading while the main body is not complete.
Level1Numeric ==
    /\ AtLine
    /\ HeadingLevel(lines[pos]) = 1
    /\ ~main_body_complete
    /\ LET r == NumericLevel1(numeric_counters, HeadingText(lines[pos]))
       IN  /\ numeric_counters' = r.counters
           /\ numbered_outline' = Append(numbered_outline, r.line)
           \* line 188 sets the flag, which is False on this branch
           /\ main_body_complete' = r.complete
    /\ current_main_mode' = "numeric"
    /\ pos' = pos + 1
    /\ UNCHANGED other_vars
    /\ UNCHANGED << outline, lines, appendix_counters, appendix_letter_counter,
                    current_appendix_letter, result, pc >>

\* Lines 189-196: a level-1 heading after the main body.
Level1Appendix ==
    /\ AtLine
    /\ HeadingLevel(lines[pos]) = 1
    /\ main_body_complete
    /\ LET r == AppendixLevel1(appendix_letter_counter, HeadingText(lines[pos]))
       IN  /\ current_appendix_letter' = r.letter
           /\ appendix_letter_counter' = r.letter_counter
           /\ appendix_counters' = r.counters
           /\ numbered_outline' = Append(numbered_outline, r.line)
    /\ current_main_mode' = "appendix"
    /\ pos' = pos + 1
    /\ UNCHANGED other_vars
    /\ UNCHANGED << outline, lines, numeric_counters, main_body_complete,
                    result, pc >>

\* Lines 197-211: a subheading while the last level-1 heading was numeric.
SubNumeric ==
    /\ AtLine
    /\ HeadingLevel(lines[pos]) > 1
    /\ current_main_mode = "numeric"
    /\ LET r == NumericSub(numeric_counters, HeadingLevel(lines[pos]),
                           HeadingText(lines[pos]))
       IN  /\ numeric_counters' = r.counters
           /\ numbered_outline' = Append(numbered_outline, r.line)
    /\ pos' = pos + 1
    /\ UNCHANGED other_vars
    /\ UNCHANGED << outline, lines, appendix_counters, appendix_letter_counter,
                    current_appendix_letter, main_body_complete,
                    current_main_mode, result, pc >>

\* Lines 212-223: a subheading while the last level-1 heading was an
\* appendix.  ".".join raises TypeError on a None letter.
SubAppendix ==
    /\ AtLine
    /\ HeadingLevel(lines[pos]) > 1
    /\ current_main_mode = "appendix"
    /\ IF current_appendix_letter = None
       THEN /\ pc' = "raised"
            /\ appendix_counters' =
                   AppendixSub(appendix_counters, current_appendix_letter,
                               HeadingLevel(lines[pos]), <<>>).counters
            /\ UNCHANGED << numbered_outline, pos >>
       ELSE LET r == AppendixSub(appendix_counters, current_appendix_letter,
                                 HeadingLevel(lines[pos]), HeadingText(lines[pos]))
            IN  /\ appendix_counters' = r.counters
                /\ numbered_outline' = Append(numbered_outline, r.line)
                /\ pos' = pos + 1
                /\ pc' = pc
    /\ UNCHANGED other_vars
    /\ UNCHANGED << outline, lines, numeric_counters, appendix_letter_counter,
                    current_appendix_letter, main_body_complete,
                    current_main_mode, result >>

\* Line 225: return "\n".join(numbered_outline).
Return ==
    /\ pc = "loop"
    /\ pos > Len(lines)
    /\ result' = Join(numbered_outline, <<NL>>)
    /\ pc' = "done"
    /\ UNCHANGED other_vars
    /\ UNCHANGED << outline, lines, pos, numbered_outline, numeric_counters,
                    appendix_counters, appendix_letter_counter,
                    current_appendix_letter, main_body_complete,
                    current_main_mode >>

Next ==
    \/ PassThrough
    \/ Level1Numeric
    \/ Level1Appendix
    \/ SubNumeric
    \/ SubAppendix
    \/ Return

Spec == Init /\ [][Next]_vars

(***************************************************************************)
(* Two calls in one process (process_pdf calls the renumberer once per     *)
(* document, line 256): the second call begins when the first has          *)
(* returned, and runs lines 137-153 again.                                 *)
(***************************************************************************)
\* An outline that leaves the numeric counters high and the mode numeric.
NumberedLines == << Heading(1, TxtNumbered), Heading(2, TxtSub) >>

FirstOutlines == { Join(ls, <<NL>>) : ls \in {AppendixLines, NumberedLines} }

InitCalls ==
    /\ outline \in FirstOutlines
    /\ lines = SplitLines(outline)
    /\ pos = 1
    /\ numbered_outline = <<>>
    /\ numeric_counters = EmptyDict
    /\ appendix_counters = EmptyDict
    /\ appendix_letter_counter = OrdA
    /\ current_appendix_letter = None
    /\ main_body_complete = FALSE
    /\ current_main_mode = "numeric"
    /\ result = <<>>
    /\ pc = "loop"
    /\ OthersIdle

\* Mutant of CallAgain: the counters, the letter and the mode are kept
\* from the call before, as module-level state would be.
CallAgainKeepsState ==
    /\ pc = "done"
    /\ returned = <<>>                \* one further call is modelled
    /\ returned' = Append(returned, [outline |-> outline, result |-> result])
    /\ UNCHANGED << extract_vars, render_vars, pdf_vars >>
    /\ \E o \in Outlines :
          /\ outline' = o
          /\ lines' = SplitLines(o)
    /\ pos' = 1
    /\ numbered_outline' = <<>>
    /\ result' = <<>>
    /\ pc' = "loop"
    /\ UNCHANGED << numeric_counters, appendix_counters, appendix_letter_counter,
                    current_appendix_letter, main_body_complete, current_main_mode >>

\* The next call of add_numbering_to_outline: its locals are created anew
\* (lines 137-153) and the loop starts on the new argument (line 155).
CallAgain ==
    /\ pc = "done"
    /\ returned = <<>>                \* one further call is modelled
    /\ returned' = Append(returned, [outline |-> outline, result |-> result])
    /\ UNCHANGED << extract_vars, render_vars, pdf_vars >>
    /\ \E o \in Outlines :
          /\ outline' = o
          /\ lines' = SplitLines(o)
    /\ pos' = 1
    /\ numbered_outline' = <<>>
    /\ numeric_counters' = EmptyDict
    /\ appendix_counters' = EmptyDict
    /\ appendix_letter_counter' = OrdA
    /\ current_appendix_letter' = None
    /\ main_body_complete' = FALSE
    /\ current_main_mode' = "numeric"
    /\ result' = <<>>
    /\ pc' = "loop"

NextCalls ==
    \/ PassThrough
    \/ Level1Numeric
    \/ Level1Appendix
    \/ SubNumeric
    \/ SubAppendix
    \/ Return
    \/ CallAgain

SpecCalls == InitCalls /\ [][NextCalls]_vars

(***************************************************************************)
(* The result of renumbering an outline on its own: the loop body folded   *)
(* over the lines from the initial values of the locals.                   *)
(***************************************************************************)
FreshLocals ==
    [numbered_outline        |-> <<>>,
     numeric_counters        |-> EmptyDict,
     appendix_counters       |-> EmptyDict,
     appendix_letter_counter |-> OrdA,
     current_appendix_letter |-> None,
     main_body_complete      |-> FALSE,
     current_main_mode       |-> "numeric"]

AfterLine(st, line) ==
    LET level == HeadingLevel(line)
        text  == HeadingText(line)
    IN  IF level = 0
        THEN [st EXCEPT !.numbered_outline = Append(@, line)]
        ELSE IF level = 1 /\ ~st.main_body_complete
        THEN LET r == NumericLevel1(st.numeric_counters, text)
             IN  [st EXCEPT !.numbered_outline = Append(@, r.line),
                            !.numeric_counters = r.counters,
                            !.main_body_complete = r.complete,
                            !.current_main_mode = "numeric"]
        ELSE IF level = 1
        THEN LET r == AppendixLevel1(st.appendix_letter_counter, text)
             IN  [st EXCEPT !.numbered_outline = Append(@, r.line),
                            !.appendix_counters = r.counters,
                            !.appendix_letter_counter = r.letter_counter,
                            !.current_appendix_letter = r.letter,
                            !.current_main_mode = "appendix"]
        ELSE IF st.current_main_mode = "numeric"
        THEN LET r == NumericSub(st.numeric_counters, level, text)
             IN  [st EXCEPT !.numbered_outline = Append(@, r.line),
                            !.numeric_counters = r.counters]
        ELSE LET r == AppendixSub(st.appendix_counters, st.current_appendix_letter,
                                  level, text)
             IN  [st EXCEPT !.numbered_outline = Append(@, r.line),
                            !.appendix_counters = r.counters]

RECURSIVE AfterLines(_, _)
AfterLines(st, ls) ==
    IF ls = <<>> THEN st ELSE AfterLines(AfterLine(st, Head(ls)), Tail(ls))

RenumberedAlone(o) ==
    Join(AfterLines(FreshLocals, SplitLines(o)).numbered_outline, <<NL>>)

(***************************************************************************)
(* The heading extractor (extract_headings_regex, lines 67-115).           *)
(*                                                                         *)
(* A page is the string page.get_text() returns: the lines of the page,    *)
(* each ended by "\n".  The three patterns are compiled with re.MULTILINE, *)
(* so ^ matches at the start of every line and $ at its end, while \s      *)
(* also matches "\n" and a match may run over several lines.               *)
(***************************************************************************)
MaxItems == 4

MaxScan == 2

SetMin(S) == CHOOSE x \in S : \A y \in S : x <= y

SetMax(S) == CHOOSE x \in S : \A y \in S : x >= y

IsUpper(c) == \E k \in 1..Len(Uppers) : Uppers[k] = c

IsLower(c) == \E k \in 1..Len(Lowers) : Lowers[k] = c

\* regex \w.
IsWord(c) == IsUpper(c) \/ IsLower(c) \/ IsDigit(c) \/ c = "_"

\* Length of the longest prefix of s matching [-\w\s]*.
RECURSIVE TitleClassRun(_)
TitleClassRun(s) ==
    IF s # <<>> /\ (Head(s) = "-" \/ IsWord(Head(s)) \/ IsSpace(Head(s)))
    THEN 1 + TitleClassRun(Tail(s))
    ELSE 0

\* Position of the first "\n" of text at or after position t, and
\* Len(text) + 1 when there is none: where .* and $ stop.
NextNL(text, t) ==
    IF \E k \in t..Len(text) : text[k] = NL
    THEN SetMin({ k \in t..Len(text) : text[k] = NL })
    ELSE Len(text) + 1

\* ^ under re.MULTILINE at position p of text.
IsLineStart(text, p) == p = 1 \/ text[p - 1] = NL

\* The number of the line of text that holds position k.
LineOf(text, k) == 1 + Count(SubSeq(text, 1, k - 1), NL)

\* text has the literal lit at position b.
HasAt(text, b, lit) ==
    /\ b + Len(lit) - 1 <= Len(text)
    /\ SubSeq(text, b, b + Len(lit) - 1) = lit

\* Length of the match of \d+(?:\.\d+)* at the start of s, 0 for none.
NumeralLen(s) ==
    IF DigitRun(s) >= 1
    THEN DigitRun(s) + DottedRun(From(s, DigitRun(s) + 1))
    ELSE 0

Introduction == <<"I","n","t","r","o","d","u","c","t","i","o","n">>

intro_literals ==
    { Introduction, <<"I","N","T","R","O","D","U","C","T","I","O","N">> }

section_keywords ==
    { <<"C","h","a","p","t","e","r">>,
      <<"S","e","c","t","i","o","n">>,
      <<"A","p","p","e","n","d","i","x">> }

affiliation_keywords ==
    { <<"u","n","i","v","e","r","s","i","t","y">>,
      <<"s","c","h","o","o","l"," ","o","f">>,
      <<"d","e","p","a","r","t","m","e","n","t"," ","o","f">>,
      <<"i","n","s","t","i","t","u","t","e">> }

NoMatch ==
    [matched |-> FALSE, group1 |-> <<>>, group2 |-> <<>>, at |-> 0, end |-> 0]

\* The match of heading_patterns[0] that begins at line start p:
\*   ^\s*(?:\d+(?:\.\d+)*\s+)?(?:Introduction|INTRODUCTION)(.*)$
\* \s* is greedy and must stop before a digit or the literal; the optional
\* numeral needs whitespace after it and the literal right after that.
\* at is the position of the literal, end the position of the last
\* character matched.
IntroAt(text, p) ==
    LET a == p + SpaceRun(From(text, p))
        n == NumeralLen(From(text, a))
        w == SpaceRun(From(text, a + n))
        b == IF n >= 1 /\ w >= 1 THEN a + n + w ELSE a
        z == NextNL(text, b + Len(Introduction)) - 1
    IN  IF \E lit \in intro_literals : HasAt(text, b, lit)
        THEN [matched |-> TRUE,
              group1  |-> SubSeq(text, b + Len(Introduction), z),
              group2  |-> <<>>,
              at      |-> b,
              end     |-> z]
        ELSE NoMatch

\* patterns[0].search(text): the match at the first line start that has one.
IntroSearch(text) ==
    LET starts == { p \in 1..Len(text) :
                        IsLineStart(text, p) /\ IntroAt(text, p).matched }
    IN  IF starts = {} THEN NoMatch ELSE IntroAt(text, SetMin(starts))

\* The match of heading_patterns[1] that begins at line start p:
\*   ^\s*(\d+(?:\.\d+)*)\s+(.+)$
\* \s+ takes as much whitespace as leaves one character of the same line
\* for (.+), which then runs to the end of that line.
NumberedAt(text, p) ==
    LET a  == p + SpaceRun(From(text, p))
        n  == NumeralLen(From(text, a))
        e  == a + n
        w  == SpaceRun(From(text, e))
        ks == { k \in 1..w : e + k <= Len(text) /\ text[e + k] # NL }
        t  == e + SetMax(ks)
        z  == NextNL(text, t) - 1
    IN  IF n >= 1 /\ ks # {}
        THEN [matched |-> TRUE,
              group1  |-> SubSeq(text, a, e - 1),
              group2  |-> SubSeq(text, t, z),
              at      |-> a,
              end     |-> z]
        ELSE NoMatch

\* The match of heading_patterns[2] that begins at line start p:
\*   ^\s*(Chapter|Section|Appendix)\s+([A-Z0-9][-\w\s]*:?.*)$
\* [-\w\s]* is greedy and crosses line ends; .* then runs to the end of
\* the line it stopped on.
LabeledAt(text, p) ==
    LET a  == p + SpaceRun(From(text, p))
        kw == CHOOSE k \in section_keywords : HasAt(text, a, k)
        e  == a + Len(kw)
        c  == e + SpaceRun(From(text, e))
        g  == c + 1 + TitleClassRun(From(text, c + 1))
        z  == IF g > Len(text) THEN Len(text) ELSE NextNL(text, g) - 1
    IN  IF /\ \E k \in section_keywords : HasAt(text, a, k)
           /\ c > e
           /\ c <= Len(text)
           /\ (IsUpper(text[c]) \/ IsDigit(text[c]))
        THEN [matched |-> TRUE,
              group1  |-> kw,
              group2  |-> SubSeq(text, c, z),
              at      |-> a,
              end     |-> z]
        ELSE NoMatch

MatchAt(rule, text, p) ==
    IF rule = "numbered" THEN NumberedAt(text, p) ELSE LabeledAt(text, p)

\* pattern.finditer(text) from position start on: the matches from left to
\* right, each search resuming where the match before ended.
RECURSIVE FindIter(_, _, _)
FindIter(rule, text, start) ==
    LET starts == { p \in start..Len(text) :
                        IsLineStart(text, p) /\ MatchAt(rule, text, p).matched }
    IN  IF starts = {} THEN <<>>
        ELSE LET m == MatchAt(rule, text, SetMin(starts))
             IN  <<m>> \o FindIter(rule, text, m.end + 1)

\* Lines 108-110: any(keyword.lower() in title.lower() for keyword in ...).
IsAffiliation(title) ==
    \E keyword \in affiliation_keywords :
        Contains(Lower(title), Lower(keyword))

\* Line 112: level = numbering.count('.') + 1 if numbering else 1.
Level(numbering) ==
    IF numbering # <<>> THEN Count(numbering, ".") + 1 ELSE 1

\* Lines 104-113, for one match m of one of patterns[1:] on the page with
\* number page_no: the candidate appended, with where it comes from, or
\* nothing for a title with an affiliation keyword.
Candidate(rule, text, m, page_no) ==
    LET numbering == m.group1
        title     == Strip(m.group2)
    IN  IF IsAffiliation(title) THEN <<>>
        ELSE << [heading |-> << Level(numbering), title, page_no >>,
                 origin  |-> [rule |-> rule, page |-> page_no,
                              line |-> LineOf(text, m.at)]] >>

RECURSIVE Candidates(_, _, _, _)
Candidates(rule, text, ms, page_no) ==
    IF ms = <<>> THEN <<>>
    ELSE Candidate(rule, text, Head(ms), page_no)
             \o Candidates(rule, text, Tail(ms), page_no)

\* Lines 101-113: for pattern in patterns[1:]: for match in finditer(text).
PageCandidates(text, page_no) ==
    Candidates("numbered", text, FindIter("numbered", text, 1), page_no)
        \o Candidates("labeled", text, FindIter("labeled", text, 1), page_no)

\* Line 96: (1, "Introduction" + (intro_match.group(1) or ""), page_num + 1).
IntroCandidate(text, page_no) ==
    LET intro_match == IntroSearch(text)
    IN  [heading |-> << 1, Introduction \o intro_match.group1, page_no >>,
         origin  |-> [rule |-> "intro", page |-> page_no,
                      line |-> LineOf(text, intro_match.at)]]

\* Mutant of PagesToScan: every page of the document.
PagesToScanAll(maxp, page_count) == page_count

\* Line 87: min(max_pages, doc.page_count).
PagesToScan(maxp, page_count) ==
    IF maxp <= page_count THEN maxp ELSE page_count

\* [c.heading for c in cs]
RECURSIVE HeadingsOf(_)
HeadingsOf(cs) ==
    IF cs = <<>> THEN <<>> ELSE <<Head(cs).heading>> \o HeadingsOf(Tail(cs))

RECURSIVE OriginsOf(_)
OriginsOf(cs) ==
    IF cs = <<>> THEN <<>> ELSE <<Head(cs).origin>> \o OriginsOf(Tail(cs))

\* Lines 87-113 from page number k (counted from 0) up to page n, as one
\* function of the pages: the candidates appended.
RECURSIVE ScanFrom(_, _, _, _)
ScanFrom(found, pages, k, n) ==
    IF k >= n THEN <<>>
    ELSE LET text == pages[k + 1]
         IN  IF ~found /\ IntroSearch(text).matched
             THEN <<IntroCandidate(text, k + 1)>> \o ScanFrom(TRUE, pages, k + 1, n)
             ELSE IF found
             THEN PageCandidates(text, k + 1) \o ScanFrom(TRUE, pages, k + 1, n)
             ELSE ScanFrom(FALSE, pages, k + 1, n)

\* extract_headings_regex(pdf_bytes, maxp) as a function of whether the
\* document opens and of the text of its pages.
ExtractHeadings(opens, pages, maxp) ==
    IF ~opens THEN <<>>
    ELSE HeadingsOf(ScanFrom(FALSE, pages, 0, PagesToScan(maxp, Len(pages))))

(***************************************************************************)
(* The documents the extractor is run on: up to MaxItems items, each a     *)
(* line of text or a page break.                                           *)
(***************************************************************************)
FormFeed == <<"\f">>

XIntro == <<"1"," ">> \o Introduction

XIntroAff == Introduction \o <<" ","t","o"," ","U","n","i","v","e","r","s","i","t","y">>

XNum == <<"2"," ","M","e">>

XSub == <<"2",".","1"," ","S","u">>

XApp == <<"A","p","p","e","n","d","i","x"," ","A",".">>

XAff == <<"3"," ","I","n","s","t","i","t","u","t","e">>

XText == <<"a","b","c",".">>

PageLines == { XIntro, XIntroAff, XNum, XSub, XApp, XAff, XText }

Items == PageLines \cup { FormFeed }

RECURSIVE ItemSeqs(_)
ItemSeqs(n) ==
    IF n = 0 THEN { <<>> }
    ELSE LET shorter == ItemSeqs(n - 1)
         IN  shorter \cup { Append(is, i) : is \in { x \in shorter : Len(x) = n - 1 },
                                            i \in Items }

\* The text of a page with the lines ls.
RECURSIVE PageText(_)
PageText(ls) ==
    IF ls = <<>> THEN <<>> ELSE Head(ls) \o <<NL>> \o PageText(Tail(ls))

\* The pages of a sequence of items.
RECURSIVE PagesOf(_)
PagesOf(is) ==
    IF \E k \in 1..Len(is) : is[k] = FormFeed
    THEN LET k == SetMin({ j \in 1..Len(is) : is[j] = FormFeed })
         IN  <<PageText(SubSeq(is, 1, k - 1))>> \o PagesOf(From(is, k + 1))
    ELSE <<PageText(is)>>

\* An Introduction page, then a page where a labeled section comes before
\* a numbered heading.
MixedItems == << XIntro, FormFeed, XApp, XNum, XSub >>

Docs == { PagesOf(is) : is \in ItemSeqs(MaxItems) \cup { MixedItems } }

\* add_numbering_to_outline is not running.
RenumberIdle ==
    /\ outline = <<>>
    /\ lines = <<>>
    /\ pos = 1
    /\ numbered_outline = <<>>
    /\ numeric_counters = EmptyDict
    /\ appendix_counters = EmptyDict
    /\ appendix_letter_counter = OrdA
    /\ current_appendix_letter = None
    /\ main_body_complete = FALSE
    /\ current_main_mode = "numeric"
    /\ result = <<>>
    /\ pc = "idle"

\* Lines 69-78 and the first evaluation of line 87.
InitExtract ==
    /\ \/ readable = TRUE /\ doc \in Docs
       \/ readable = FALSE /\ doc = <<>>
    /\ max_pages \in 1..MaxScan
    /\ page_num = 0
    /\ found_introduction = FALSE
    /\ headings = <<>>
    /\ origin = <<>>
    /\ xpc = "loop"
    /\ returned = <<>>
    /\ RenumberIdle
    /\ RenderIdle
    /\ PdfIdle

\* Lines 74-78: fitz.open raises, the empty list is returned.
OpenFails ==
    /\ xpc = "loop"
    /\ ~readable
    /\ xpc' = "done"
    /\ UNCHANGED << doc, readable, max_pages, page_num, found_introduction,
                    headings, origin >>
    /\ UNCHANGED << renumber_vars, returned, render_vars, pdf_vars >>

AtPage ==
    /\ xpc = "loop"
    /\ readable
    /\ page_num < PagesToScan(max_pages, Len(doc))

\* Mutant of IntroductionFound: the flag is not set.
IntroductionFoundFlagUnset ==
    /\ AtPage
    /\ ~found_introduction
    /\ IntroSearch(doc[page_num + 1]).matched
    /\ LET c == IntroCandidate(doc[page_num + 1], page_num + 1)
       IN  /\ headings' = Append(headings, c.heading)
           /\ origin' = Append(origin, c.origin)
    /\ page_num' = page_num + 1
    /\ UNCHANGED << doc, readable, max_pages, xpc, found_introduction >>
    /\ UNCHANGED << renumber_vars, returned, render_vars, pdf_vars >>

\* Lines 92-97: the Introduction pattern matches on this page; the
\* heading is appended and `continue` goes on to the next page.
IntroductionFound ==
    /\ AtPage
    /\ ~found_introduction
    /\ IntroSearch(doc[page_num + 1]).matched
    /\ found_introduction' = TRUE
    /\ LET c == IntroCandidate(doc[page_num + 1], page_num + 1)
       IN  /\ headings' = Append(headings, c.heading)
           /\ origin' = Append(origin, c.origin)
    /\ page_num' = page_num + 1
    /\ UNCHANGED << doc, readable, max_pages, xpc >>
    /\ UNCHANGED << renumber_vars, returned, render_vars, pdf_vars >>

\* Lines 92-100 on a page without Introduction while none has been found:
\* neither branch is taken.
PageBeforeIntroduction ==
    /\ AtPage
    /\ ~found_introduction
    /\ ~IntroSearch(doc[page_num + 1]).matched
    /\ page_num' = page_num + 1
    /\ UNCHANGED << doc, readable, max_pages, xpc, found_introduction,
                    headings, origin >>
    /\ UNCHANGED << renumber_vars, returned, render_vars, pdf_vars >>

\* Lines 100-113 on a page after the page of the Introduction.
PageAfterIntroduction ==
    /\ AtPage
    /\ found_introduction
    /\ LET cs == PageCandidates(doc[page_num + 1], page_num + 1)
       IN  /\ headings' = headings \o HeadingsOf(cs)
           /\ origin' = origin \o OriginsOf(cs)
    /\ page_num' = page_num + 1
    /\ UNCHANGED << doc, readable, max_pages, xpc, found_introduction >>
    /\ UNCHANGED << renumber_vars, returned, render_vars, pdf_vars >>

\* Line 115, once range(min(max_pages, doc.page_count)) is exhausted.
ExtractReturn ==
    /\ xpc = "loop"
    /\ readable
    /\ page_num >= PagesToScan(max_pages, Len(doc))
    /\ xpc' = "done"
    /\ UNCHANGED << doc, readable, max_pages, page_num, found_introduction,
                    headings, origin >>
    /\ UNCHANGED << renumber_vars, returned, render_vars, pdf_vars >>

NextExtract ==
    \/ OpenFails
    \/ IntroductionFound
    \/ PageBeforeIntroduction
    \/ PageAfterIntroduction
    \/ ExtractReturn

SpecExtract == InitExtract /\ [][NextExtract]_vars

(***************************************************************************)
(* The render adapter (convert_markdown_to_html, lines 227-241).           *)
(***************************************************************************)
MaxHashes == 7

MaxRenderLines == 2

\* Length of the match of #+ (or #*) at the start of s.
RECURSIVE HashRun(_)
HashRun(s) ==
    IF s # <<>> /\ Head(s) = "#" THEN 1 + HashRun(Tail(s)) ELSE 0

\* "<p" and "</p>" with what stands between them in lines 236 and 238.
ParagraphOpen == <<"<","p",">">>

ParagraphClassOpen == <<"<","p"," ","c","l","a","s","s","=","\"","h">>

ParagraphClassClose == <<"\"",">">>

ParagraphClose == <<"<","/","p",">">>

\* Lines 233-236 for a line that re.match(r'^(#+)\s*(.*)', line) matches:
\* f'<p class="h{level}">{text}</p>' with level = len(match.group(1)).
HeadingHtml(line) ==
    LET level == HashRun(line)
        text  == LStripSpace(From(line, HashRun(line) + 1))
    IN  ParagraphClassOpen \o ToStr(level) \o ParagraphClassClose
            \o text \o ParagraphClose

\* Line 238: f'<p>{line}</p>'.
PlainHtml(line) == ParagraphOpen \o line \o ParagraphClose

\* Lines 232-238 for every line of ls.
RECURSIVE HtmlLines(_)
HtmlLines(ls) ==
    IF ls = <<>> THEN <<>>
    ELSE << IF HashRun(Head(ls)) >= 1 THEN HeadingHtml(Head(ls))
            ELSE PlainHtml(Head(ls)) >> \o HtmlLines(Tail(ls))

\* convert_markdown_to_html(text) as one function.
ConvertMarkdownToHtml(text) ==
    Join(HtmlLines(SplitLines(Strip(text))), <<NL>>)

\* The lines the adapter is run on: headings of every depth up to
\* MaxHashes, a heading without blank after the markers, a line that is
\* no heading and an empty line.
TxtRendered == <<"1"," ","I","n">>

RenderLines ==
    { Heading(d, TxtRendered) : d \in 1..MaxHashes }
        \cup { <<"#","x">>, <<"x"," ","#">>, <<>> }

RECURSIVE RenderLineSeqs(_)
RenderLineSeqs(n) ==
    IF n = 0 THEN { <<>> }
    ELSE LET shorter == RenderLineSeqs(n - 1)
         IN  shorter \cup { Append(ls, l) : ls \in { x \in shorter : Len(x) = n - 1 },
                                            l \in RenderLines }

Markdowns == { Join(ls, <<NL>>) : ls \in RenderLineSeqs(MaxRenderLines) }

\* Lines 229-230.
InitRender ==
    /\ markdown_text \in Markdowns
    /\ md_lines = SplitLines(Strip(markdown_text))
    /\ md_pos = 1
    /\ html_output = <<>>
    /\ html = <<>>
    /\ rpc = "loop"
    /\ returned = <<>>
    /\ RenumberIdle
    /\ ExtractIdle
    /\ PdfIdle

AtRenderLine == rpc = "loop" /\ md_pos <= Len(md_lines)

\* Lines 233-236: the line begins with '#'.
RenderHeading ==
    /\ AtRenderLine
    /\ HashRun(md_lines[md_pos]) >= 1
    /\ html_output' = Append(html_output, HeadingHtml(md_lines[md_pos]))
    /\ md_pos' = md_pos + 1
    /\ UNCHANGED << markdown_text, md_lines, html, rpc >>
    /\ UNCHANGED << renumber_vars, returned, extract_vars, pdf_vars >>

\* Lines 237-238: any other line.
RenderPlain ==
    /\ AtRenderLine
    /\ HashRun(md_lines[md_pos]) = 0
    /\ html_output' = Append(html_output, PlainHtml(md_lines[md_pos]))
    /\ md_pos' = md_pos + 1
    /\ UNCHANGED << markdown_text, md_lines, html, rpc >>
    /\ UNCHANGED << renumber_vars, returned, extract_vars, pdf_vars >>

\* Line 240.
RenderReturn ==
    /\ rpc = "loop"
    /\ md_pos > Len(md_lines)
    /\ html' = Join(html_output, <<NL>>)
    /\ rpc' = "done"
    /\ UNCHANGED << markdown_text, md_lines, md_pos, html_output >>
    /\ UNCHANGED << renumber_vars, returned, extract_vars, pdf_vars >>

NextRender ==
    \/ RenderHeading
    \/ RenderPlain
    \/ RenderReturn

SpecRender == InitRender /\ [][NextRender]_vars

(***************************************************************************)
(* process_pdf (lines 250-297) with extract_pdf_toc (lines 57-65) and      *)
(* generate_markdown_outline (lines 117-123).                              *)
(***************************************************************************)
\* max_pages=7 of line 252.
PdfMaxPages == 7

\* Line 62, and line 65 after an exception: toc if toc else None.
ExtractPdfToc(bytes) ==
    IF bytes.readable /\ bytes.toc # <<>> THEN bytes.toc ELSE None

\* Lines 119-123: one "#" * level + " " + heading per entry, joined by "\n".
RECURSIVE MarkdownLines(_)
MarkdownLines(hs) ==
    IF hs = <<>> THEN <<>>
    ELSE <<Heading(Head(hs)[1], Head(hs)[2])>> \o MarkdownLines(Tail(hs))

GenerateMarkdownOutline(hs) == Join(MarkdownLines(hs), <<NL>>)

no_headings_info == "No headings found in the PDF."

NothingShown == [info |-> "", raw_markdown |-> <<>>, converted_html |-> <<>>]

\* The documents process_pdf is run on: one that does not open, and the
\* readable ones with or without an embedded outline over a few pages.
TxtAbstract == <<"A","b","s","t","r","a","c","t">>

Tocs ==
    { <<>>,
      << <<1, TxtAbstract, 1>>, <<1, Introduction, 2>> >>,
      << <<1, TxtPlain, 1>>, <<2, TxtSub, 1>>, <<1, TxtKeyword, 3>> >> }

PdfPages == { PagesOf(is) : is \in ItemSeqs(2) \cup { MixedItems } }

Pdfs ==
    { [readable |-> FALSE, toc |-> <<>>, pages |-> <<>>] }
        \cup { [readable |-> TRUE, toc |-> t, pages |-> p] :
                   t \in Tocs, p \in PdfPages }

InitPdf ==
    /\ pdf_bytes \in Pdfs
    /\ pdf_headings = <<>>
    /\ calls = <<>>
    /\ shown = NothingShown
    /\ ppc = "start"
    /\ returned = <<>>
    /\ RenumberIdle
    /\ ExtractIdle
    /\ RenderIdle

\* Mutant of TocFound: the extractor is run although the embedded outline
\* has entries.
TocFoundAndExtracted ==
    /\ ppc = "start"
    /\ ExtractPdfToc(pdf_bytes) # None
    /\ pdf_headings' = ExtractPdfToc(pdf_bytes)
    /\ calls' = calls \o << "extract_pdf_toc", "extract_headings_regex" >>
    /\ ppc' = "branch"
    /\ UNCHANGED << pdf_bytes, shown >>
    /\ UNCHANGED << renumber_vars, returned, extract_vars, render_vars >>

\* Line 252 when extract_pdf_toc returns entries: `or` does not evaluate
\* its right operand.
TocFound ==
    /\ ppc = "start"
    /\ ExtractPdfToc(pdf_bytes) # None
    /\ pdf_headings' = ExtractPdfToc(pdf_bytes)
    /\ calls' = Append(calls, "extract_pdf_toc")
    /\ ppc' = "branch"
    /\ UNCHANGED << pdf_bytes, shown >>
    /\ UNCHANGED << renumber_vars, returned, extract_vars, render_vars >>

\* Line 252 when extract_pdf_toc returns None: the value is that of
\* extract_headings_regex(pdf_bytes, max_pages=7).
TocMissing ==
    /\ ppc = "start"
    /\ ExtractPdfToc(pdf_bytes) = None
    /\ pdf_headings' =
          ExtractHeadings(pdf_bytes.readable, pdf_bytes.pages, PdfMaxPages)
    /\ calls' = calls \o << "extract_pdf_toc", "extract_headings_regex" >>
    /\ ppc' = "branch"
    /\ UNCHANGED << pdf_bytes, shown >>
    /\ UNCHANGED << renumber_vars, returned, extract_vars, render_vars >>

\* Lines 254-293: the outline is formatted, renumbered, shown as raw
\* markdown and rendered.
ShowOutline ==
    /\ ppc = "branch"
    /\ pdf_headings # <<>>
    /\ LET markdown_outline == GenerateMarkdownOutline(pdf_headings)
           raw_markdown     == RenumberedAlone(markdown_outline)
       IN  shown' = [info           |-> "",
                     raw_markdown   |-> raw_markdown,
                     converted_html |-> ConvertMarkdownToHtml(raw_markdown)]
    /\ calls' = calls \o << "generate_markdown_outline",
                            "add_numbering_to_outline",
                            "convert_markdown_to_html" >>
    /\ ppc' = "done"
    /\ UNCHANGED << pdf_bytes, pdf_headings >>
    /\ UNCHANGED << renumber_vars, returned, extract_vars, render_vars >>

\* Lines 295-296.
ShowNoHeadings ==
    /\ ppc = "branch"
    /\ pdf_headings = <<>>
    /\ shown' = [NothingShown EXCEPT !.info = no_headings_info]
    /\ ppc' = "done"
    /\ UNCHANGED << pdf_bytes, pdf_headings, calls >>
    /\ UNCHANGED << renumber_vars, returned, extract_vars, render_vars >>

NextPdf ==
    \/ TocFound
    \/ TocMissing
    \/ ShowOutline
    \/ ShowNoHeadings

SpecPdf == InitPdf /\ [][NextPdf]_vars

(***************************************************************************)
(* Reading the input and the output of a finished call.                    *)
(***************************************************************************)
Done == pc = "done"

InLines == SplitLines(outline)

OutLines == SplitLines(result)

NumLines == Len(InLines)

Lvl(i) == HeadingLevel(InLines[i])

Txt(i) == HeadingText(InLines[i])

\* Index of the first whitespace of s, Len(s) + 1 when it has none.
FirstSpace(s) ==
    IF \E k \in 1..Len(s) : s[k] = " "
    THEN CHOOSE k \in 1..Len(s) : s[k] = " " /\ \A h \in 1..(k - 1) : s[h] # " "
    ELSE Len(s) + 1

\* The label of output line i: what stands between the markers' space and
\* the next space.
Label(i) ==
    LET rest == From(OutLines[i], Lvl(i) + 2)
    IN  SubSeq(rest, 1, FirstSpace(rest) - 1)

\* What follows the label and its space on output line i.
TextAfterLabel(i) ==
    LET rest == From(OutLines[i], Lvl(i) + 2)
    IN  From(rest, FirstSpace(rest) + 1)

\* The dot-separated components of a label.
RECURSIVE Components(_)
Components(label) ==
    IF \E k \in 1..Len(label) : label[k] = "."
    THEN LET k == CHOOSE j \in 1..Len(label) :
                      label[j] = "." /\ \A h \in 1..(j - 1) : label[h] # "."
         IN  <<SubSeq(label, 1, k - 1)>> \o Components(From(label, k + 1))
    ELSE <<label>>

LastComponent(label) == Components(label)[Len(Components(label))]

\* The number of '#' a line begins with.
LeadingMarkers(s) == Len(s) - Len(LStripHash(s))

IsNumeral(s) == s # <<>> /\ \A k \in 1..Len(s) : IsDigit(s[k])

IsLetter(s) == Len(s) = 1 /\ \E k \in 1..Len(Uppers) : Uppers[k] = s[1]

IsSuffix(t, s) == Len(t) <= Len(s) /\ From(s, Len(s) - Len(t) + 1) = t

\* Line i is a depth-1 heading whose text contains a conclusion keyword.
IsConclusionHeading(i) == Lvl(i) = 1 /\ HasConclusionKeyword(Txt(i))

\* No depth-1 conclusion heading at or before line i.
BeforeConclusion(i) == \A h \in 1..i : ~IsConclusionHeading(h)

\* Line i is the first depth-1 conclusion heading.
IsFirstConclusion(i) == IsConclusionHeading(i) /\ (i = 1 \/ BeforeConclusion(i - 1))

\* Some depth-1 conclusion heading stands before line i.
AfterConclusion(i) == \E h \in 1..(i - 1) : IsConclusionHeading(h)

\* The depth-1 headings among lines from..to.
Level1Between(from, to) == { h \in from..to : Lvl(h) = 1 }

\* The label, read as a number, of the last depth-1 heading before line i
\* (0 when there is none).
PreviousLevel1Number(i) ==
    IF Level1Between(1, i - 1) = {} THEN 0
    ELSE LET h == CHOOSE x \in Level1Between(1, i - 1) :
                      \A y \in Level1Between(1, i - 1) : y <= x
         IN  ToInt(Label(h))

(***************************************************************************)
(* C1: every input line gives exactly one output line, in the same order:  *)
(* while the loop runs there are as many output lines as lines processed,  *)
(* and the returned string has as many lines as the input; its i-th line   *)
(* is the i-th input line itself when that line has no marker, and         *)
(* otherwise ends with the text of the i-th input line (without its        *)
(* leading numbering).                                                     *)
(***************************************************************************)
C1_OneOutputLinePerInputLine ==
    /\ pc = "loop" => Len(numbered_outline) = pos - 1
    /\ Done =>
          /\ Len(OutLines) = NumLines
          /\ \A i \in 1..NumLines :
                IF Lvl(i) = 0 THEN OutLines[i] = InLines[i]
                ELSE IsSuffix(StripNumbering(Txt(i)), OutLines[i])

C1_Witness ==
    /\ Done
    /\ NumLines = MaxLines
    /\ \E i, j \in 1..NumLines : Lvl(i) = 0 /\ Lvl(j) > 1 /\ i < j

(***************************************************************************)
(* C2 as stated: the k-th depth-1 heading before the first depth-1         *)
(* conclusion heading is labelled k.                                       *)
(***************************************************************************)
C2_Original ==
    Done =>
        \A i \in 1..NumLines :
            (Lvl(i) = 1 /\ BeforeConclusion(i)) =>
                Label(i) = ToStr(Cardinality(Level1Between(1, i)))

(***************************************************************************)
(* C2 amended: a depth-1 heading before the first depth-1 conclusion       *)
(* heading keeps its own number when its text begins with a numeral        *)
(* followed by whitespace, and is otherwise labelled one more than the     *)
(* depth-1 heading before it (1 when it is the first); so when none of     *)
(* these headings begins with a numeral, the k-th is labelled k.           *)
(***************************************************************************)
C2_NumericLabelsContinueFromPrevious ==
    Done =>
        \A i \in 1..NumLines :
            (Lvl(i) = 1 /\ BeforeConclusion(i)) =>
                /\ Label(i) =
                      IF LeadingNumber(Txt(i)).matched
                      THEN ToStr(ToInt(LeadingNumber(Txt(i)).group1))
                      ELSE ToStr(PreviousLevel1Number(i) + 1)
                /\ (\A h \in Level1Between(1, i) : ~LeadingNumber(Txt(h)).matched)
                      => Label(i) = ToStr(Cardinality(Level1Between(1, i)))

C2_Witness ==
    /\ Done
    /\ \E h, i \in 1..NumLines :
          /\ h < i
          /\ Lvl(h) = 1 /\ Lvl(i) = 1 /\ BeforeConclusion(i)
          /\ LeadingNumber(Txt(h)).matched
          /\ ~LeadingNumber(Txt(i)).matched
          /\ Label(i) = <<"1", "0">>

(***************************************************************************)
(* C3: once a depth-1 conclusion heading has been processed, every later   *)
(* depth-1 heading of the run is labelled with an appendix letter, never   *)
(* with a number, whatever its text.                                       *)
(***************************************************************************)
C3_AppendixModeIsPermanent ==
    Done =>
        \A i \in 1..NumLines :
            (Lvl(i) = 1 /\ AfterConclusion(i)) =>
                /\ IsLetter(Label(i))
                /\ TextAfterLabel(i) = Txt(i)

C3_Witness ==
    /\ Done
    /\ \E h, i \in 1..NumLines :
          /\ h # i
          /\ Lvl(h) = 1 /\ AfterConclusion(h) /\ LeadingNumber(Txt(h)).matched
          /\ Lvl(i) = 1 /\ AfterConclusion(i) /\ HasConclusionKeyword(Txt(i))

(***************************************************************************)
(* C4: the depth-1 headings after the first depth-1 conclusion heading     *)
(* are labelled A, B, C, ... in order of appearance: the k-th of them gets *)
(* the k-th letter, so no letter labels two of them.                       *)
(***************************************************************************)
C4_AppendixLettersInSequence ==
    Done =>
        \A c \in 1..NumLines :
            IsFirstConclusion(c) =>
                /\ \A i \in Level1Between(c + 1, NumLines) :
                      Label(i) = <<Uppers[Cardinality(Level1Between(c + 1, i))]>>
                /\ \A h, i \in Level1Between(c + 1, NumLines) :
                      Label(h) = Label(i) => h = i

C4_Witness ==
    /\ Done
    /\ \E c, h, i \in 1..NumLines :
          /\ IsFirstConclusion(c)
          /\ c < h /\ h < i
          /\ Lvl(h) = 1 /\ Lvl(i) = 1
          /\ Label(h) = <<"A">> /\ Label(i) = <<"B">>
          /\ \E x \in (h + 1)..(i - 1) : Lvl(x) > 1

(***************************************************************************)
(* C5: hierarchical reset, in both numbering modes: after a heading of     *)
(* depth s, the first heading of any depth d > s that follows it (no other *)
(* depth-d heading in between) has 1 as the last component of its label.   *)
(***************************************************************************)
C5_DeeperCountersRestart ==
    Done =>
        \A a, b \in 1..NumLines :
            ( /\ a < b
              /\ Lvl(a) >= 1
              /\ Lvl(b) > Lvl(a)
              /\ \A x \in (a + 1)..(b - 1) : Lvl(x) # Lvl(b) )
            => LastComponent(Label(b)) = <<"1">>

\* Inside an appendix: a depth-3 heading, then a depth-2 heading, then the
\* next depth-3 heading, which starts again at 1.
C5_Witness ==
    /\ Done
    /\ \E c, a, b \in 1..NumLines :
          /\ c < a /\ a < b
          /\ Lvl(c) = 3 /\ Lvl(a) = 2 /\ Lvl(b) = 3
          /\ \A x \in (a + 1)..(b - 1) : Lvl(x) # 3
          /\ Label(c) = <<"A", ".", "0", ".", "1">>
          /\ Label(a) = <<"A", ".", "1">>
          /\ Label(b) = <<"A", ".", "1", ".", "1">>

(***************************************************************************)
(* The documented scenario, with a given label on its conclusion heading.  *)
(***************************************************************************)
ScenarioOutput(conclusion_label) ==
    Join(<< Heading(1, <<"1", " ">> \o TxtIntroduction),
            Heading(2, <<"1", ".", "1", " ">> \o TxtBackground),
            Heading(1, <<"2", " ">> \o TxtMethods),
            Heading(1, conclusion_label \o <<" ">> \o TxtConclusion),
            Heading(1, <<"A", " ">> \o TxtAcknowledgments),
            Heading(2, <<"A", ".", "1", " ">> \o TxtFunding) >>, <<NL>>)

IsScenario == outline = Join(ScenarioLines, <<NL>>)

(***************************************************************************)
(* C6 as stated: the first depth-1 conclusion heading is labelled 6        *)
(* whatever precedes it, and the scenario's conclusion is "# 6 Conclusion".*)
(***************************************************************************)
C6_Original ==
    Done =>
        /\ \A i \in 1..NumLines : IsFirstConclusion(i) => Label(i) = <<"6">>
        /\ IsScenario => result = ScenarioOutput(<<"6">>)

(***************************************************************************)
(* C6 amended: the first depth-1 conclusion heading is numbered like every *)
(* other main-body depth-1 heading: with its own number when its text      *)
(* begins with a numeral followed by whitespace, otherwise one more than   *)
(* the depth-1 heading before it; the scenario's conclusion is             *)
(* "# 3 Conclusion" and its other five lines are as documented.            *)
(***************************************************************************)
C6_ConclusionNumberFollowsCounter ==
    Done =>
        /\ \A i \in 1..NumLines :
              IsFirstConclusion(i) =>
                  Label(i) =
                      IF LeadingNumber(Txt(i)).matched
                      THEN ToStr(ToInt(LeadingNumber(Txt(i)).group1))
                      ELSE ToStr(PreviousLevel1Number(i) + 1)
        /\ IsScenario => result = ScenarioOutput(<<"3">>)

C6_Witness == Done /\ IsScenario /\ result = ScenarioOutput(<<"3">>)

(***************************************************************************)
(* C7: the first depth-1 conclusion heading keeps a numeric label N, and   *)
(* every heading of depth > 1 between it and the next depth-1 heading is   *)
(* numbered numerically under it: its label has one numeric component per  *)
(* depth, the first being N; no appendix letter appears before the first   *)
(* depth-1 heading after the conclusion.                                   *)
(***************************************************************************)
C7_ConclusionSubheadingsStayNumeric ==
    Done =>
        \A c \in 1..NumLines :
            IsFirstConclusion(c) =>
                /\ IsNumeral(Label(c))
                /\ \A i \in (c + 1)..NumLines :
                      (Lvl(i) > 1 /\ Level1Between(c + 1, i) = {}) =>
                          /\ Len(Components(Label(i))) = Lvl(i)
                          /\ \A k \in 1..Lvl(i) : IsNumeral(Components(Label(i))[k])
                          /\ Components(Label(i))[1] = Label(c)

C7_Witness ==
    /\ Done
    /\ \E c, h, i \in 1..NumLines :
          /\ IsFirstConclusion(c)
          /\ c < h /\ h < i
          /\ Level1Between(c + 1, i) = {}
          /\ Lvl(h) = 2 /\ Lvl(i) = 3
          /\ Label(i) = Label(c) \o <<".", "1", ".", "1">>

(***************************************************************************)
(* The appendix label a heading of depth > 1 on line i is due: the label   *)
(* of the last depth-1 heading before it, then for each depth 2..Lvl(i)    *)
(* the number of headings of that depth since the last shallower heading.  *)
(***************************************************************************)
LastLevel1Before(i) ==
    CHOOSE x \in Level1Between(1, i - 1) : \A y \in Level1Between(1, i - 1) : y <= x

\* The last line at or before i whose heading is shallower than depth.
LastShallower(i, depth) ==
    CHOOSE x \in 1..i :
        /\ Lvl(x) >= 1 /\ Lvl(x) < depth
        /\ \A y \in (x + 1)..i : ~(Lvl(y) >= 1 /\ Lvl(y) < depth)

HeadingsSince(i, depth) ==
    Cardinality({ x \in LastShallower(i, depth)..i : Lvl(x) = depth })

RECURSIVE CountersFrom(_, _)
CountersFrom(i, depth) ==
    IF depth > Lvl(i) THEN <<>>
    ELSE <<".">> \o ToStr(HeadingsSince(i, depth)) \o CountersFrom(i, depth + 1)

ExpectedAppendixLabel(i) == Label(LastLevel1Before(i)) \o CountersFrom(i, 2)

(***************************************************************************)
(* C8 as stated: every heading of depth > 1 after the first depth-1        *)
(* conclusion heading, also before the first appendix heading, carries an  *)
(* appendix label: a letter followed by its counters.                      *)
(***************************************************************************)
C8_Original ==
    Done =>
        \A i \in 1..NumLines :
            (Lvl(i) > 1 /\ LeadingMarkers(InLines[i]) = Lvl(i) /\ AfterConclusion(i)) =>
                /\ IsLetter(Components(Label(i))[1])
                /\ Len(Components(Label(i))) = Lvl(i)

(***************************************************************************)
(* C8 amended: appendix labelling starts at the first depth-1 heading      *)
(* after the conclusion heading, not at the conclusion heading: every      *)
(* heading of depth > 1 that follows such a depth-1 appendix heading is    *)
(* labelled with that heading's letter followed by the dot-joined          *)
(* appendix counters of depths 2..depth, and keeps its text as it is.      *)
(***************************************************************************)
C8_AppendixLabelsAfterFirstAppendixHeading ==
    Done =>
        \A i \in 1..NumLines :
            ( /\ Lvl(i) > 1
              /\ \E h \in 1..(i - 1) : Lvl(h) = 1 /\ AfterConclusion(h) )
            => /\ IsLetter(Components(Label(i))[1])
               /\ Label(i) = ExpectedAppendixLabel(i)
               /\ TextAfterLabel(i) = Txt(i)

C8_Witness ==
    /\ Done
    /\ \E c, g, h, i \in 1..NumLines :
          /\ IsFirstConclusion(c)
          /\ c < g /\ g < h /\ h < i
          /\ Lvl(g) = 2 /\ Lvl(h) = 1 /\ Lvl(i) = 3
          /\ IsNumeral(Components(Label(g))[1])
          /\ Label(i) = <<"A", ".", "0", ".", "1">>

(***************************************************************************)
(* C9 as stated: a line that does not begin with '#' is emitted unchanged, *)
(* and a heading line is emitted with as many leading '#' as it had in the *)
(* input, also when its text contains a '#'.                               *)
(***************************************************************************)
C9_Claim ==
    Done =>
        \A i \in 1..NumLines :
            IF LeadingMarkers(InLines[i]) = 0
            THEN OutLines[i] = InLines[i]
            ELSE LeadingMarkers(OutLines[i]) = LeadingMarkers(InLines[i])

(***************************************************************************)
(* C10 as stated: every heading line is emitted as its markers, its label, *)
(* a space, and the heading text with its leading numeral sequence         *)
(* stripped, in either mode and at every depth.                            *)
(***************************************************************************)
C10_Claim ==
    Done =>
        \A i \in 1..NumLines :
            Lvl(i) >= 1 => TextAfterLabel(i) = StripNumbering(Txt(i))

(***************************************************************************)
(* C15: the renumberer never raises, whatever the order of depths: the     *)
(* appendix mode is only ever entered together with a letter, so every     *)
(* label of a heading of depth > 1 begins with a number or with a letter   *)
(* that has been assigned, and the loop always reaches its return.         *)
(***************************************************************************)
C15_NeverRaises ==
    /\ pc # "raised"
    /\ current_main_mode = "appendix" => current_appendix_letter # None
    /\ (pc = "loop" /\ pos > Len(lines)) => ENABLED Return
    /\ Done =>
          \A i \in 1..NumLines :
              Lvl(i) > 1 =>
                  \/ IsNumeral(Components(Label(i))[1])
                  \/ /\ IsLetter(Components(Label(i))[1])
                     /\ Components(Label(i))[1] = Label(LastLevel1Before(i))

\* A subheading right after the conclusion heading and, later, one inside
\* an appendix.
C15_Witness ==
    /\ Done
    /\ \E c, i \in 1..NumLines :
          /\ IsFirstConclusion(c)
          /\ c < NumLines /\ Lvl(c + 1) > 1
          /\ Lvl(i) > 1
          /\ IsLetter(Components(Label(i))[1])

(***************************************************************************)
(* C20: in a run on an input none of whose depth-1 headings begins with a  *)
(* numeral followed by whitespace, no two heading lines get the same       *)
(* label, whatever the order of depths and across the main body, the       *)
(* conclusion and the appendices.                                          *)
(***************************************************************************)
NoLevel1BringsANumber ==
    \A i \in 1..NumLines : Lvl(i) = 1 => ~LeadingNumber(Txt(i)).matched

C20_LabelsPairwiseDistinct ==
    (Done /\ NoLevel1BringsANumber) =>
        \A i, j \in 1..NumLines :
            (Lvl(i) >= 1 /\ Lvl(j) >= 1 /\ Label(i) = Label(j)) => i = j

\* A subheading before any depth-1 heading, then the conclusion, then an
\* appendix.
C20_Witness ==
    /\ Done
    /\ NoLevel1BringsANumber
    /\ \E a, c, i \in 1..NumLines :
          /\ a < c /\ c < i
          /\ Lvl(a) > 1 /\ Level1Between(1, a) = {}
          /\ IsFirstConclusion(c)
          /\ Lvl(i) = 1

(***************************************************************************)
(* C16: the renumbering state is created anew in each call: the result of  *)
(* renumbering an outline after another outline has been renumbered is the *)
(* result of renumbering it on its own.                                    *)
(***************************************************************************)
C16_NoStateAcrossCalls ==
    Done => result = RenumberedAlone(outline)

\* A second call, after a call that ended in appendix mode at letter B, on
\* an outline with a subheading and a depth-1 heading in the main body.
C16_Witness ==
    /\ Done
    /\ Len(returned) = 1
    /\ returned[1].outline = Join(AppendixLines, <<NL>>)
    /\ \E i \in 1..NumLines : Lvl(i) > 1 /\ IsNumeral(Components(Label(i))[1])
    /\ \E i \in 1..NumLines : Lvl(i) = 1 /\ Label(i) = <<"1">>

(***************************************************************************)
(* Claims about the heading extractor.                                     *)
(***************************************************************************)
XDone == xpc = "done"

\* The number of pages the claims speak of: min(maxPages, pageCount).
FirstPages == IF max_pages <= Len(doc) THEN max_pages ELSE Len(doc)

\* The lines of a page, without the empty piece after the last "\n".
LinesOfPage(text) ==
    LET ls == SplitLines(text)
    IN  IF ls[Len(ls)] = <<>> THEN SubSeq(ls, 1, Len(ls) - 1) ELSE ls

\* A line that is an Introduction heading: optional blanks, an optional
\* numeral and blanks, then Introduction or INTRODUCTION.
IsIntroductionLine(line) ==
    \E lit \in intro_literals : HasAt(StripNumbering(LStripSpace(line)), 1, lit)

HasIntroductionLine(text) ==
    \E k \in 1..Len(LinesOfPage(text)) : IsIntroductionLine(LinesOfPage(text)[k])

\* C12: no candidate of the result, from whichever rule, has a text that
\* contains "university", "school of", "department of" or "institute" in
\* any letter case.  The code filters the candidates of the numbered and
\* labeled rules only; the Introduction rule appends what follows
\* "Introduction" on its line unfiltered.
C12_Claim ==
    \A k \in 1..Len(headings) : ~IsAffiliation(headings[k][2])

\* C13: every candidate has a page number in 1..min(maxPages, pageCount),
\* and the result is the result for the document cut after that many
\* pages, so that nothing on a later page has any influence.
C13_OnlyFirstPagesScanned ==
    /\ \A k \in 1..Len(headings) : headings[k][3] \in 1..FirstPages
    /\ XDone =>
          headings = ExtractHeadings(readable, SubSeq(doc, 1, FirstPages), max_pages)

\* A run that has returned an Introduction from the scanned pages while
\* the first page beyond them holds a heading the rules would take.
C13_Witness ==
    /\ XDone
    /\ max_pages < Len(doc)
    /\ headings # <<>>
    /\ PageCandidates(doc[max_pages + 1], max_pages + 1) # <<>>

\* C17: the Introduction rule gives the first candidate of the result and
\* no other one (so it fires at most once and nothing from the numbered
\* or labeled rule precedes it), that candidate has depth 1, and a run
\* over pages none of which has an Introduction line returns nothing.
C17_IntroductionFirstAndOnce ==
    /\ \A k \in 1..Len(origin) : (origin[k].rule = "intro") <=> (k = 1)
    /\ headings # <<>> => headings[1][1] = 1
    /\ (XDone /\ \A g \in 1..FirstPages : ~HasIntroductionLine(doc[g]))
          => headings = <<>>

\* A finished run with an Introduction line on a scanned page after the
\* page of the Introduction candidate, and a candidate from that page.
C17_Witness ==
    /\ XDone
    /\ Len(headings) >= 2
    /\ origin[1].rule = "intro"
    /\ \E g \in (origin[1].page + 1)..FirstPages :
          /\ HasIntroductionLine(doc[g])
          /\ \E k \in 2..Len(origin) : origin[k].page = g

\* C18: the candidates are in reading order: page numbers never decrease
\* along the result, and of two candidates from the same page the one from
\* the earlier line comes first, whichever rule matched.  The code appends
\* all matches of the numbered rule on a page before any match of the
\* labeled rule on that page.
C18_Claim ==
    \A j, k \in 1..Len(origin) :
        j < k =>
            /\ origin[j].page <= origin[k].page
            /\ origin[j].page = origin[k].page => origin[j].line <= origin[k].line

\* The line alone matches the numbered or the labeled rule with a title
\* that is not affiliation noise.
IsHeadingLine(line) ==
    \E rule \in {"numbered", "labeled"} :
        /\ MatchAt(rule, line, 1).matched
        /\ ~IsAffiliation(Strip(MatchAt(rule, line, 1).group2))

\* C19: once the Introduction is found, every line after it on its page or
\* on a later scanned page that matches the numbered or labeled rule and is
\* not affiliation noise gives exactly one candidate.  The code leaves the
\* page of the Introduction with `continue` (line 97) before the other
\* rules are applied to it.
C19_Claim ==
    (XDone /\ headings # <<>>) =>
        \A g \in origin[1].page..FirstPages :
            \A l \in 1..Len(LinesOfPage(doc[g])) :
                (/\ g > origin[1].page \/ l > origin[1].line
                 /\ IsHeadingLine(LinesOfPage(doc[g])[l]))
                    => Cardinality({ k \in 2..Len(origin) :
                                       /\ origin[k].page = g
                                       /\ origin[k].line = l }) = 1

(***************************************************************************)
(* Claims about the render adapter.                                        *)
(***************************************************************************)
\* The style class the claim gives a heading of depth d.
ClampedClass(d) == <<"h">> \o ToStr(IF d <= 6 THEN d ELSE 6)

\* The value of the class attribute of an emitted paragraph, "" for none.
ClassOf(p) ==
    LET open == <<"<","p"," ","c","l","a","s","s","=","\"">>
    IN  IF HasAt(p, 1, open)
        THEN SubSeq(p, Len(open) + 1,
                    SetMin({ k \in (Len(open) + 1)..Len(p) : p[k] = "\"" }) - 1)
        ELSE <<>>

\* C14: every heading line is given a style class of h1..h6: class h{d}
\* for depth d <= 6 and class h6 for a greater depth.  The code writes
\* class h{d} for every d, and its style sheet (lines 12-47) knows h1..h6.
C14_Claim ==
    \A k \in 1..Len(html_output) :
        HashRun(md_lines[k]) >= 1 =>
            ClassOf(html_output[k]) = ClampedClass(HashRun(md_lines[k]))

(***************************************************************************)
(* Claims about process_pdf.                                               *)
(***************************************************************************)
Called(f) == \E k \in 1..Len(calls) : calls[k] = f

\* The embedded outline is absent (the document gives none) or empty.
OutlineAbsent == ~pdf_bytes.readable \/ pdf_bytes.toc = <<>>

\* C11: once line 252 is past, the extractor has been called exactly when
\* the embedded outline is absent or empty; an embedded outline with
\* entries is formatted and renumbered with no extraction; and when the
\* extractor finds nothing either, nothing is formatted or renumbered and
\* "No headings found in the PDF." is reported.
C11_ExtractorOnlyAsFallback ==
    /\ ppc \in {"branch", "done"} =>
          (Called("extract_headings_regex") <=> OutlineAbsent)
    /\ (ppc = "done" /\ ~OutlineAbsent) =>
          /\ calls = << "extract_pdf_toc", "generate_markdown_outline",
                        "add_numbering_to_outline", "convert_markdown_to_html" >>
          /\ shown.raw_markdown =
                RenumberedAlone(GenerateMarkdownOutline(pdf_bytes.toc))
    /\ (/\ ppc = "done"
        /\ OutlineAbsent
        /\ ExtractHeadings(pdf_bytes.readable, pdf_bytes.pages, PdfMaxPages) = <<>>) =>
          /\ ~Called("generate_markdown_outline")
          /\ ~Called("add_numbering_to_outline")
          /\ shown = [NothingShown EXCEPT !.info = no_headings_info]

\* A finished run on a readable document with an empty embedded outline
\* whose pages gave the extractor headings, which were shown.
C11_Witness ==
    /\ ppc = "done"
    /\ pdf_bytes.readable
    /\ pdf_bytes.toc = <<>>
    /\ Called("extract_headings_regex")
    /\ Len(pdf_headings) >= 2
    /\ shown.raw_markdown # <<>>

====
